---------------------------- MODULE Spec2Model ----------------------------
(***************************************************************************)
(* A model of webencodings/__init__.py: label lookup, one-shot decode and  *)
(* encode, and the streaming iterdecode with its BOM sniffing buffer.      *)
(*                                                                         *)
(* Text (labels, decoded strings) is a sequence of Unicode code points,    *)
(* a byte string is a sequence of integers 0..255, an iterable of byte     *)
(* strings is a sequence of byte strings with a position.                  *)
(***************************************************************************)
EXTENDS Integers, Sequences, FiniteSets, TLC

VARIABLES
    label,        \* the label argument of decode / iterdecode / encode
    chunks,       \* the iterable argument of iterdecode, as the chunks it will yield
    errors,       \* the errors argument, or NoArg when the caller omits it
    pc,           \* position of the scenario (see the actions)
    decoded,      \* outcome of the one-shot decode(b''.join(chunks), label, errors)
    encoding,     \* iterdecode's local variable `encoding`
    buffer_,      \* iterdecode's local variable `buffer_`
    pulled,       \* number of chunks taken so far from iter(iterable)
    gen,          \* the generator codecs.iterdecode returned (NoGen before that)
    output,       \* the text chunks the consumer has received, in order
    raised,       \* the exception that reached the caller, or NoError
    label2,       \* second label of the lookup scenario
    looked,       \* lookup scenario: what lookup did for label and label2
    unicode_string, \* round-trip scenario: the text given to encode
    encoded       \* round-trip scenario: outcome of encode

vars == <<label, chunks, errors, pc, decoded, encoding, buffer_, pulled, gen,
          output, raised, label2, looked, unicode_string, encoded>>

-----------------------------------------------------------------------------
(* Bounds of the model.                                                    *)

\* Total number of bytes in the input of decode / iterdecode.
MaxBytes == 3
\* Number of chunks the iterable yields.
MaxChunks == 3
\* Number of pad characters on each side of a label in the lookup scenario.
MaxPad == 1
\* Number of characters of the text in the round-trip scenario.
MaxText == 3

-----------------------------------------------------------------------------
(* Generic helpers.                                                        *)

Range(s) == {s[i] : i \in 1..Len(s)}

SeqsUpTo(S, n) == UNION {[1..k -> S] : k \in 0..n}

StartsWith(s, prefix) ==
    /\ Len(s) >= Len(prefix)
    /\ SubSeq(s, 1, Len(prefix)) = prefix

Drop(s, n) == SubSeq(s, n + 1, Len(s))

RECURSIVE Concat(_)
Concat(ss) == IF ss = <<>> THEN <<>> ELSE Head(ss) \o Concat(Tail(ss))

NoArg == "<omitted>"
NoError == "<none>"
NoGen == "<no generator>"
Unused == "<unused>"

-----------------------------------------------------------------------------
(* Label lookup.                                                           *)

\* string.ascii_uppercase and string.ascii_lowercase, as code points.
ascii_uppercase == [i \in 1..26 |-> 64 + i]
ascii_lowercase == [i \in 1..26 |-> 96 + i]

\* '\t\n\f\r ': U+0009, U+000A, U+000C, U+000D, U+0020.
ASCII_WHITESPACE == <<9, 10, 12, 13, 32>>

\* dict(zip(map(ord, ascii_uppercase), map(ord, ascii_lowercase)))
ASCII_LOWERCASE_MAP ==
    [c \in Range(ascii_uppercase) |->
        ascii_lowercase[CHOOSE i \in 1..26 : ascii_uppercase[i] = c]]

\* Code point of an ASCII character written as a one-character string; only
\* used to write the label table and the inputs legibly.
Ord(ch) ==
    LET lower == <<"a","b","c","d","e","f","g","h","i","j","k","l","m",
                   "n","o","p","q","r","s","t","u","v","w","x","y","z">>
        upper == <<"A","B","C","D","E","F","G","H","I","J","K","L","M",
                   "N","O","P","Q","R","S","T","U","V","W","X","Y","Z">>
        digit == <<"0","1","2","3","4","5","6","7","8","9">>
    IN  CASE ch \in Range(lower) -> 96 + (CHOOSE i \in 1..26 : lower[i] = ch)
          [] ch \in Range(upper) -> 64 + (CHOOSE i \in 1..26 : upper[i] = ch)
          [] ch \in Range(digit) -> 47 + (CHOOSE i \in 1..10 : digit[i] = ch)
          [] ch = "-" -> 45
          [] ch = " " -> 32

U(s) == [i \in 1..Len(s) |-> Ord(s[i])]

\* The label table of webencodings/labels.py, restricted to the labels the
\* specification names.
LABELS ==
    (U(<<"u","t","f","-","8">>) :> "utf-8") @@
    (U(<<"u","t","f","8">>) :> "utf-8") @@
    (U(<<"a","s","c","i","i">>) :> "windows-1252") @@
    (U(<<"l","a","t","i","n","1">>) :> "windows-1252")

\* Faulty variant of strip: str.strip() without an argument, which drops every
\* character str.isspace() accepts (of the model's characters: the five, U+000B
\* and U+00A0).
RECURSIVE strip_AllWhitespace(_, _)
strip_AllWhitespace(s, chars) ==
    LET space == {9, 10, 11, 12, 13, 32, 160}
    IN  IF s # <<>> /\ Head(s) \in space THEN strip_AllWhitespace(Tail(s), chars)
        ELSE IF s # <<>> /\ s[Len(s)] \in space
             THEN strip_AllWhitespace(SubSeq(s, 1, Len(s) - 1), chars)
        ELSE s

\* str.strip(chars): drop leading, then trailing, characters that are in chars.
RECURSIVE lstrip(_, _)
lstrip(s, chars) ==
    IF s # <<>> /\ Head(s) \in Range(chars) THEN lstrip(Tail(s), chars) ELSE s

RECURSIVE rstrip(_, _)
rstrip(s, chars) ==
    IF s # <<>> /\ s[Len(s)] \in Range(chars)
    THEN rstrip(SubSeq(s, 1, Len(s) - 1), chars)
    ELSE s

strip(s, chars) == rstrip(lstrip(s, chars), chars)

\* str.translate(table): a character with an entry is replaced, any other kept.
translate(s, table) ==
    [i \in 1..Len(s) |-> IF s[i] \in DOMAIN table THEN table[s[i]] ELSE s[i]]

\* The key lookup() indexes LABELS with.
LookupKey(lbl) == translate(strip(lbl, ASCII_WHITESPACE), ASCII_LOWERCASE_MAP)

\* lookup(label): the encoding name, or the LookupError (a KeyError) it raises.
lookup(lbl) ==
    LET key == LookupKey(lbl)
    IN  IF key \in DOMAIN LABELS
        THEN [ok |-> TRUE, name |-> LABELS[key], key |-> key]
        ELSE [ok |-> FALSE, name |-> "LookupError", key |-> key]

-----------------------------------------------------------------------------
(* The codec engine: Python's codecs, as far as the byte strings and text  *)
(* of the model reach.  A decoder run returns the text it produced, the    *)
(* number of bytes it consumed and whether it raised UnicodeDecodeError.   *)

REPLACEMENT_CHARACTER == <<65533>>

\* b'\xFF\xFE', b'\xFE\xFF' and b'\xEF\xBB\xBF'.
BOM_UTF16_LE == <<255, 254>>
BOM_UTF16_BE == <<254, 255>>
BOM_UTF8 == <<239, 187, 191>>

IsContinuation(b) == b \in 128..191

\* One step of the UTF-8 decoder at the head of d (d non-empty): a character,
\* an invalid sequence of n bytes, or a sequence cut short by the end of d.
Utf8Step(d) ==
    LET b1 == d[1]
        \* bounds of the second byte: no overlong forms, no surrogates, <= U+10FFFF
        lo2 == IF b1 = 224 THEN 160 ELSE IF b1 = 240 THEN 144 ELSE 128
        hi2 == IF b1 = 237 THEN 159 ELSE IF b1 = 244 THEN 143 ELSE 191
        need == IF b1 \in 194..223 THEN 2 ELSE IF b1 \in 224..239 THEN 3 ELSE 4
    IN  IF b1 < 128 THEN [kind |-> "char", cp |-> b1, n |-> 1]
        ELSE IF b1 \notin 194..244 THEN [kind |-> "invalid", cp |-> 0, n |-> 1]
        ELSE IF Len(d) < 2 THEN [kind |-> "truncated", cp |-> 0, n |-> Len(d)]
        ELSE IF d[2] \notin lo2..hi2 THEN [kind |-> "invalid", cp |-> 0, n |-> 1]
        ELSE IF need = 2
             THEN [kind |-> "char", cp |-> (b1 - 192) * 64 + (d[2] - 128), n |-> 2]
        ELSE IF Len(d) < 3 THEN [kind |-> "truncated", cp |-> 0, n |-> Len(d)]
        ELSE IF ~IsContinuation(d[3]) THEN [kind |-> "invalid", cp |-> 0, n |-> 2]
        ELSE IF need = 3
             THEN [kind |-> "char",
                   cp |-> (b1 - 224) * 4096 + (d[2] - 128) * 64 + (d[3] - 128),
                   n |-> 3]
        ELSE IF Len(d) < 4 THEN [kind |-> "truncated", cp |-> 0, n |-> Len(d)]
        ELSE IF ~IsContinuation(d[4]) THEN [kind |-> "invalid", cp |-> 0, n |-> 3]
        ELSE [kind |-> "char",
              cp |-> (b1 - 240) * 262144 + (d[2] - 128) * 4096
                     + (d[3] - 128) * 64 + (d[4] - 128),
              n |-> 4]

\* The result of a decoder run that puts `text` (n bytes) before the run `rest`.
Then(text, n, rest) ==
    IF rest.err THEN rest
    ELSE [text |-> text \o rest.text, consumed |-> n + rest.consumed, err |-> FALSE]

Stopped == [text |-> <<>>, consumed |-> 0, err |-> FALSE]
Failed == [text |-> <<>>, consumed |-> 0, err |-> TRUE]

\* codecs.utf_8_decode(d, errs, final)
RECURSIVE utf_8_decode(_, _, _)
utf_8_decode(d, errs, final) ==
    IF d = <<>> THEN Stopped
    ELSE LET st == Utf8Step(d)
         IN  IF st.kind = "char"
             THEN Then(<<st.cp>>, st.n, utf_8_decode(Drop(d, st.n), errs, final))
             ELSE IF st.kind = "truncated" /\ ~final THEN Stopped
             ELSE IF errs = "strict" THEN Failed
             ELSE Then(REPLACEMENT_CHARACTER, st.n,
                       utf_8_decode(Drop(d, st.n), errs, final))

\* codecs.utf_16_le_decode / utf_16_be_decode (order "le" or "be")
RECURSIVE utf_16_decode_units(_, _, _, _)
utf_16_decode_units(d, order, errs, final) ==
    LET unit(i) == IF order = "le" THEN d[i] + 256 * d[i + 1]
                   ELSE 256 * d[i] + d[i + 1]
        go(text, n) == Then(text, n, utf_16_decode_units(Drop(d, n), order, errs, final))
        bad(n) == IF errs = "strict" THEN Failed ELSE go(REPLACEMENT_CHARACTER, n)
    IN  IF d = <<>> THEN Stopped
        ELSE IF Len(d) < 2 THEN (IF final THEN bad(Len(d)) ELSE Stopped)
        ELSE IF unit(1) \notin 55296..57343 THEN go(<<unit(1)>>, 2)
        ELSE IF unit(1) >= 56320 THEN bad(2)
        ELSE IF Len(d) < 4 THEN (IF final THEN bad(Len(d)) ELSE Stopped)
        ELSE IF unit(3) \in 56320..57343
             THEN go(<<65536 + (unit(1) - 55296) * 1024 + (unit(3) - 56320)>>, 4)
        ELSE bad(2)

\* The byte order a UTF-16 stream announces: "le", "be", "none" (no mark) or
\* "unknown" (fewer than two bytes yet).
Utf16ByteOrder(d) ==
    IF Len(d) < 2 THEN "unknown"
    ELSE IF StartsWith(d, BOM_UTF16_LE) THEN "le"
    ELSE IF StartsWith(d, BOM_UTF16_BE) THEN "be"
    ELSE "none"

\* The cp1252 decoding table: the byte's character, or 0 where undefined.
Cp1252High ==
    <<8364, 0, 8218, 402, 8222, 8230, 8224, 8225, 710, 8240, 352, 8249, 338, 0, 381, 0,
      0, 8216, 8217, 8220, 8221, 8226, 8211, 8212, 732, 8482, 353, 8250, 339, 0, 382, 376>>

Cp1252Char(b) == IF b \in 128..159 THEN Cp1252High[b - 127] ELSE b

\* codecs.charmap_decode(d, errs, decoding_table) for cp1252
RECURSIVE cp1252_decode(_, _)
cp1252_decode(d, errs) ==
    IF d = <<>> THEN Stopped
    ELSE IF Cp1252Char(d[1]) # 0
         THEN Then(<<Cp1252Char(d[1])>>, 1, cp1252_decode(Tail(d), errs))
    ELSE IF errs = "strict" THEN Failed
    ELSE Then(REPLACEMENT_CHARACTER, 1, cp1252_decode(Tail(d), errs))

\* bytes.decode(name, errs): the one-shot decoders.
BytesDecode(d, name, errs) ==
    CASE name = "utf-8" -> utf_8_decode(d, errs, TRUE)
      [] name = "utf_8_sig" ->
            IF StartsWith(d, BOM_UTF8)
            THEN Then(<<>>, 3, utf_8_decode(Drop(d, 3), errs, TRUE))
            ELSE utf_8_decode(d, errs, TRUE)
      [] name = "utf_16" ->
            IF Utf16ByteOrder(d) \in {"le", "be"}
            THEN Then(<<>>, 2, utf_16_decode_units(Drop(d, 2), Utf16ByteOrder(d), errs, TRUE))
            ELSE utf_16_decode_units(d, "le", errs, TRUE)
      [] name = "windows-1252" -> cp1252_decode(d, errs)

\* str.encode('utf-8', errs)
RECURSIVE utf_8_encode(_, _)
utf_8_encode(text, errs) ==
    IF text = <<>> THEN [bytes |-> <<>>, err |-> FALSE]
    ELSE LET c == Head(text)
             rest == utf_8_encode(Tail(text), errs)
             put(bs) == IF rest.err THEN rest
                        ELSE [bytes |-> bs \o rest.bytes, err |-> FALSE]
         IN  IF c < 128 THEN put(<<c>>)
             ELSE IF c < 2048 THEN put(<<192 + (c \div 64), 128 + (c % 64)>>)
             ELSE IF c \in 55296..57343
                  THEN (IF errs = "strict" THEN [bytes |-> <<>>, err |-> TRUE]
                        ELSE put(<<63>>))
             ELSE IF c < 65536
                  THEN put(<<224 + (c \div 4096), 128 + ((c \div 64) % 64), 128 + (c % 64)>>)
             ELSE put(<<240 + (c \div 262144), 128 + ((c \div 4096) % 64),
                        128 + ((c \div 64) % 64), 128 + (c % 64)>>)

\* str.encode(name, errs) for the names LABELS resolves to.
StrEncode(text, name, errs) ==
    CASE name = "utf-8" -> utf_8_encode(text, errs)

\* codecs.getincrementaldecoder(name)(errs): a fresh incremental decoder.
\* buffer: bytes kept for the next call; first: utf_8_sig has not yet decided
\* about a BOM; order: the byte order utf_16 has read from the mark.
NewDecoder(name, errs) ==
    [name |-> name, errors |-> errs, buffer |-> <<>>, first |-> TRUE, order |-> "unknown"]

\* IncrementalDecoder.decode(input, final): the run and the decoder afterwards.
IncrementalDecode(dec, input, final) ==
    LET data == dec.buffer \o input
        keep(r, d2) == [run |-> r,
                        dec |-> IF r.err THEN d2
                                ELSE [d2 EXCEPT !.buffer = Drop(data, r.consumed)]]
    IN  CASE dec.name = "utf-8" -> keep(utf_8_decode(data, dec.errors, final), dec)
          [] dec.name = "utf_8_sig" ->
                IF ~dec.first THEN keep(utf_8_decode(data, dec.errors, final), dec)
                ELSE IF Len(data) < 3
                THEN (IF StartsWith(BOM_UTF8, data)
                      THEN keep(Stopped, dec)
                      ELSE keep(utf_8_decode(data, dec.errors, final),
                                [dec EXCEPT !.first = FALSE]))
                ELSE IF StartsWith(data, BOM_UTF8)
                THEN keep(Then(<<>>, 3, utf_8_decode(Drop(data, 3), dec.errors, final)),
                          [dec EXCEPT !.first = FALSE])
                ELSE keep(utf_8_decode(data, dec.errors, final),
                          [dec EXCEPT !.first = FALSE])
          [] dec.name = "utf_16" ->
                IF dec.order \in {"le", "be"}
                THEN keep(utf_16_decode_units(data, dec.order, dec.errors, final), dec)
                ELSE IF Utf16ByteOrder(data) \in {"le", "be"}
                THEN keep(Then(<<>>, 2,
                               utf_16_decode_units(Drop(data, 2), Utf16ByteOrder(data),
                                                   dec.errors, final)),
                          [dec EXCEPT !.order = Utf16ByteOrder(data)])
                \* "UTF-16 stream does not start with BOM"
                ELSE IF Utf16ByteOrder(data) = "none" THEN keep(Failed, dec)
                ELSE keep(utf_16_decode_units(data, "le", dec.errors, final), dec)
          [] dec.name = "windows-1252" ->
                [run |-> cp1252_decode(input, dec.errors), dec |-> dec]

-----------------------------------------------------------------------------
(* decode, encode and iterdecode.                                          *)

\* The defaults of the errors parameters.
decode_errors_default == "replace"
encode_errors_default == "strict"
iterdecode_errors_default == "strict"

\* Faulty variant of DecodeEncoding: only the little-endian UTF-16 mark is recognized.
DecodeEncoding_LittleEndianOnly(byte_string, looked_up) ==
    IF StartsWith(byte_string, BOM_UTF16_LE) THEN "utf_16"
    ELSE IF StartsWith(byte_string, BOM_UTF8) THEN "utf_8_sig"
    ELSE looked_up

\* Faulty variant of DecodeEncoding: the UTF-8 mark does not select utf_8_sig.
DecodeEncoding_NoUtf8Sig(byte_string, looked_up) ==
    IF StartsWith(byte_string, BOM_UTF16_LE) \/ StartsWith(byte_string, BOM_UTF16_BE)
    THEN "utf_16"
    ELSE looked_up

\* The encoding decode() passes to byte_string.decode, given what lookup returned.
DecodeEncoding(byte_string, looked_up) ==
    IF StartsWith(byte_string, BOM_UTF16_LE) \/ StartsWith(byte_string, BOM_UTF16_BE)
    THEN "utf_16"
    ELSE IF StartsWith(byte_string, BOM_UTF8) THEN "utf_8_sig"
    ELSE looked_up

\* Faulty variant of decode: the label is looked up only when no mark is found.
decode_BomBeforeLookup(byte_string, lbl, errs) ==
    LET mode == IF errs = NoArg THEN decode_errors_default ELSE errs
        marked == DecodeEncoding(byte_string, Unused)
        found == lookup(lbl)
        name == IF marked # Unused THEN marked ELSE found.name
        run == BytesDecode(byte_string, name, mode)
    IN  IF marked = Unused /\ ~found.ok
        THEN [raised |-> "LookupError", encoding |-> Unused, errors |-> Unused,
              text |-> <<>>]
        ELSE IF run.err
        THEN [raised |-> "UnicodeDecodeError", encoding |-> name, errors |-> mode,
              text |-> <<>>]
        ELSE [raised |-> NoError, encoding |-> name, errors |-> mode, text |-> run.text]

\* decode(byte_string, label, errors): what was passed to the codec engine and
\* what came back, or the exception raised.
decode(byte_string, lbl, errs) ==
    LET found == lookup(lbl)
        mode == IF errs = NoArg THEN decode_errors_default ELSE errs
        name == DecodeEncoding(byte_string, found.name)
        run == BytesDecode(byte_string, name, mode)
    IN  IF ~found.ok
        THEN [raised |-> "LookupError", encoding |-> Unused, errors |-> Unused,
              text |-> <<>>]
        ELSE IF run.err
        THEN [raised |-> "UnicodeDecodeError", encoding |-> name, errors |-> mode,
              text |-> <<>>]
        ELSE [raised |-> NoError, encoding |-> name, errors |-> mode, text |-> run.text]

\* encode(unicode_string, label, errors)
encode(text, lbl, errs) ==
    LET found == lookup(lbl)
        mode == IF errs = NoArg THEN encode_errors_default ELSE errs
        run == StrEncode(text, found.name, mode)
    IN  IF ~found.ok
        THEN [raised |-> "LookupError", encoding |-> Unused, bytes |-> <<>>]
        ELSE IF run.err
        THEN [raised |-> "UnicodeEncodeError", encoding |-> found.name, bytes |-> <<>>]
        ELSE [raised |-> NoError, encoding |-> found.name, bytes |-> run.bytes]

\* Faulty variant of SniffBuffer: the loop stops at two bytes without a mark.
SniffBuffer_StopAtTwo(buf, current) ==
    IF StartsWith(buf, BOM_UTF16_LE) \/ StartsWith(buf, BOM_UTF16_BE) THEN "utf_16"
    ELSE IF StartsWith(buf, BOM_UTF8) THEN "utf_8_sig"
    ELSE IF Len(buf) >= 2 THEN current
    ELSE "continue"

\* Faulty variant of SniffBuffer: nothing is decided before three bytes are buffered.
SniffBuffer_WaitForThree(buf, current) ==
    IF Len(buf) < 3 THEN "continue"
    ELSE IF StartsWith(buf, BOM_UTF16_LE) \/ StartsWith(buf, BOM_UTF16_BE) THEN "utf_16"
    ELSE IF StartsWith(buf, BOM_UTF8) THEN "utf_8_sig"
    ELSE current

\* The check iterdecode makes after `buffer_ += chunck`: the encoding to break
\* with, or "continue".
SniffBuffer(buf, current) ==
    IF StartsWith(buf, BOM_UTF16_LE) \/ StartsWith(buf, BOM_UTF16_BE) THEN "utf_16"
    ELSE IF StartsWith(buf, BOM_UTF8) THEN "utf_8_sig"
    ELSE IF Len(buf) >= 3 THEN current
    ELSE "continue"

\* Faulty variant of BufferAppend: buffer_ = chunck.
BufferAppend_Replace(buf, chunck) == chunck

\* Faulty variant of BufferAppend: buffer_ = chunck + buffer_.
BufferAppend_Prepend(buf, chunck) == chunck \o buf

\* buffer_ += chunck
BufferAppend(buf, chunck) == buf \o chunck

\* itertools.chain([buffer_], iterator), then codecs.iterdecode(iterator, encoding,
\* errors): a generator that has not run yet.  pending is what is left of the
\* list [buffer_]; the rest of the chain is the source iterator, at `pulled`.
NewGenerator(buf, name, errs) ==
    [state |-> "created", pending |-> <<buf>>, encoding |-> name,
     errors |-> IF errs = NoArg THEN iterdecode_errors_default ELSE errs,
     decoder |-> Unused]

\* The body of codecs.iterdecode from where the generator g stands to its next
\* yield, return or exception; p is the position of the source iterator.
RECURSIVE RunGenerator(_, _)
RunGenerator(g, p) ==
    LET dec == IF g.state = "created" THEN NewDecoder(g.encoding, g.errors)
               ELSE g.decoder
        hasPending == g.pending # <<>>
        hasNext == hasPending \/ p < Len(chunks)
        input == IF hasPending THEN Head(g.pending) ELSE chunks[p + 1]
        p2 == IF hasPending \/ ~hasNext THEN p ELSE p + 1
        step == IF hasNext THEN IncrementalDecode(dec, input, FALSE)
                ELSE IncrementalDecode(dec, <<>>, TRUE)
        g2 == [g EXCEPT !.decoder = step.dec,
                        !.pending = IF hasPending THEN Tail(g.pending) ELSE <<>>,
                        !.state = IF hasNext THEN "loop" ELSE "tail"]
    IN  IF g.state \in {"tail", "closed"}
        THEN [gen |-> [g EXCEPT !.state = "closed"], pulled |-> p,
              outcome |-> "stop", text |-> <<>>]
        ELSE IF step.run.err
        THEN [gen |-> [g2 EXCEPT !.state = "closed"], pulled |-> p2,
              outcome |-> "raise", text |-> <<>>]
        ELSE IF step.run.text # <<>>
        THEN [gen |-> g2, pulled |-> p2, outcome |-> "yield", text |-> step.run.text]
        ELSE IF hasNext THEN RunGenerator(g2, p2)
        ELSE [gen |-> [g2 EXCEPT !.state = "closed"], pulled |-> p,
              outcome |-> "stop", text |-> <<>>]

-----------------------------------------------------------------------------
(* Inputs.                                                                 *)

\* Bytes of the inputs: the bytes of the three marks and an ASCII letter.
\* Under UTF-8, 239 187 191 is U+FEFF, 65 is "A", the others are malformed.
InputBytes == {65, 239, 187, 191, 254, 255}

ByteStrings == SeqsUpTo(InputBytes, MaxBytes)

\* The chunks of b cut at the positions cuts (non-decreasing, in 0..Len(b)):
\* Len(cuts) + 1 chunks, empty ones where two cuts coincide.
Split(b, cuts) ==
    [i \in 1..(Len(cuts) + 1) |->
        SubSeq(b, (IF i = 1 THEN 0 ELSE cuts[i - 1]) + 1,
                  IF i = Len(cuts) + 1 THEN Len(b) ELSE cuts[i])]

CutsOf(b, k) ==
    {cuts \in [1..(k - 1) -> 0..Len(b)] :
        \A i \in 1..(k - 2) : cuts[i] <= cuts[i + 1]}

\* Every split of b into at most MaxChunks chunks; the iterable that yields
\* nothing is the only split of b'' into no chunk.
Splits(b) ==
    (IF b = <<>> THEN {<<>>} ELSE {}) \cup
    UNION {{Split(b, cuts) : cuts \in CutsOf(b, k)} : k \in 1..MaxChunks}

\* "UTF-8", " ascii" and a label that is not in the table.
StreamLabels ==
    {U(<<"U","T","F","-","8">>), U(<<" ","a","s","c","i","i">>), U(<<"n","o","n","e">>)}

ErrorModes == {NoArg, "strict", "replace"}

\* Lookup scenario: a core between pads.  The pad characters are the five
\* characters of ASCII_WHITESPACE, U+000B (white space to str.isspace, not one
\* of the five) and U+00A0; the cores vary case, hold white space inside and
\* hold the non-ASCII letters U+00C9 and U+00E9.
PadChars == {9, 10, 12, 13, 32, 11, 160}

Cores ==
    {U(<<"u","t","f","8">>), U(<<"U","T","F","8">>), U(<<"u","T","f","8">>),
     U(<<"u","t"," ","f","8">>), U(<<"A","s","c","i","i">>), U(<<"a","s","c","i","i">>),
     <<201>>, <<233>>, <<>>}

Padded(n) ==
    {pre \o core \o post : pre \in SeqsUpTo(PadChars, n), core \in Cores,
                           post \in SeqsUpTo(PadChars, n)}

LabelInputs == Padded(MaxPad)

\* The labels each input label is compared with.
ReferenceLabels ==
    Cores \cup {<<c>> \o core : c \in {32, 160}, core \in Cores}

\* Round-trip scenario: "A", U+00E9, U+FEFF, U+1F600 (one to four bytes in
\* UTF-8) and the lone surrogate U+DE00, which UTF-8 cannot express.
TextChars == {65, 233, 65279, 128512, 56832}

TextInputs == SeqsUpTo(TextChars, MaxText)

RoundTripLabels == {U(<<"u","t","f","-","8">>), U(<<"U","T","F","8"," ">>)}

-----------------------------------------------------------------------------
(* The streaming scenario: decode(b''.join(chunks), label, errors), then   *)
(* iterdecode(iter(chunks), label, errors) and a consumer of its result.   *)

Idle ==
    /\ decoded = Unused
    /\ encoding = Unused
    /\ buffer_ = <<>>
    /\ pulled = 0
    /\ gen = NoGen
    /\ output = <<>>
    /\ raised = NoError

Init ==
    /\ label \in StreamLabels
    /\ \E b \in ByteStrings : chunks \in Splits(b)
    /\ errors \in ErrorModes
    /\ pc = "decode"
    /\ Idle
    /\ label2 = Unused
    /\ looked = Unused
    /\ unicode_string = Unused
    /\ encoded = Unused

\* The one-shot call on the whole input.
Decode ==
    /\ pc = "decode"
    /\ decoded' = decode(Concat(chunks), label, errors)
    /\ pc' = "iterdecode"
    /\ UNCHANGED <<label, chunks, errors, encoding, buffer_, pulled, gen, output,
                   raised, label2, looked, unicode_string, encoded>>

\* iterdecode, up to the for loop: lookup raises, or encoding, iterator and
\* buffer_ are set.
IterdecodeCall ==
    /\ pc = "iterdecode"
    /\ LET found == lookup(label)
       IN  IF found.ok
           THEN /\ encoding' = found.name
                /\ buffer_' = <<>>
                /\ pc' = "buffering"
                /\ UNCHANGED raised
           ELSE /\ raised' = "LookupError"
                /\ pc' = "raised"
                /\ UNCHANGED <<encoding, buffer_>>
    /\ UNCHANGED <<label, chunks, errors, decoded, pulled, gen, output,
                   label2, looked, unicode_string, encoded>>

\* One iteration of `for chunck in iterator`; on break, the chain and the
\* return of codecs.iterdecode's generator.
IterdecodePull ==
    /\ pc = "buffering"
    /\ pulled < Len(chunks)
    /\ LET buf == BufferAppend(buffer_, chunks[pulled + 1])
           sniffed == SniffBuffer(buf, encoding)
       IN  /\ buffer_' = buf
           /\ pulled' = pulled + 1
           /\ IF sniffed = "continue"
              THEN UNCHANGED <<pc, encoding, gen>>
              ELSE /\ encoding' = sniffed
                   /\ gen' = NewGenerator(buf, sniffed, errors)
                   /\ pc' = "returned"
    /\ UNCHANGED <<label, chunks, errors, decoded, output, raised,
                   label2, looked, unicode_string, encoded>>

\* Faulty variant of IterdecodeExhausted: the loop asks for more bytes with next() and
\* lets the source's StopIteration escape.
IterdecodeExhausted_Raise ==
    /\ pc = "buffering"
    /\ pulled = Len(chunks)
    /\ raised' = "StopIteration"
    /\ pc' = "raised"
    /\ UNCHANGED <<label, chunks, errors, decoded, encoding, buffer_, pulled, gen,
                   output, label2, looked, unicode_string, encoded>>

\* The for loop finds the iterator exhausted; the chain and the return.
IterdecodeExhausted ==
    /\ pc = "buffering"
    /\ pulled = Len(chunks)
    /\ gen' = NewGenerator(buffer_, encoding, errors)
    /\ pc' = "returned"
    /\ UNCHANGED <<label, chunks, errors, decoded, encoding, buffer_, pulled, output,
                   raised, label2, looked, unicode_string, encoded>>

\* The consumer calls next() on the generator.
ConsumerNext ==
    /\ pc \in {"returned", "yielded"}
    /\ LET r == RunGenerator(gen, pulled)
       IN  /\ gen' = r.gen
           /\ pulled' = r.pulled
           /\ output' = IF r.outcome = "yield" THEN Append(output, r.text) ELSE output
           /\ raised' = IF r.outcome = "raise" THEN "UnicodeDecodeError" ELSE raised
           /\ pc' = CASE r.outcome = "yield" -> "yielded"
                      [] r.outcome = "stop" -> "stopped"
                      [] r.outcome = "raise" -> "raised"
    /\ UNCHANGED <<label, chunks, errors, decoded, encoding, buffer_,
                   label2, looked, unicode_string, encoded>>

Next ==
    \/ Decode
    \/ IterdecodeCall
    \/ IterdecodePull
    \/ IterdecodeExhausted
    \/ ConsumerNext

Spec == Init /\ [][Next]_vars

\* The call of iterdecode alone, for every label and every chunking, with the
\* errors argument omitted (the buffering phase does not read it).  A call,
\* once made, runs until it returns or raises.
InitBuffering ==
    /\ label \in StreamLabels
    /\ \E b \in ByteStrings : chunks \in Splits(b)
    /\ errors = NoArg
    /\ pc = "iterdecode"
    /\ Idle
    /\ label2 = Unused
    /\ looked = Unused
    /\ unicode_string = Unused
    /\ encoded = Unused

NextBuffering == IterdecodeCall \/ IterdecodePull \/ IterdecodeExhausted

SpecBuffering == InitBuffering /\ [][NextBuffering]_vars /\ WF_vars(NextBuffering)

-----------------------------------------------------------------------------
(* The lookup scenario: lookup(label) and lookup(label2).                  *)

InitLookup ==
    /\ label \in LabelInputs
    /\ label2 \in ReferenceLabels
    /\ pc = "lookup"
    /\ looked = Unused
    /\ chunks = <<>>
    /\ errors = NoArg
    /\ Idle
    /\ unicode_string = Unused
    /\ encoded = Unused

Lookup ==
    /\ pc = "lookup"
    /\ looked' = <<lookup(label), lookup(label2)>>
    /\ pc' = "looked"
    /\ UNCHANGED <<label, chunks, errors, decoded, encoding, buffer_, pulled, gen,
                   output, raised, label2, unicode_string, encoded>>

NextLookup == Lookup

SpecLookup == InitLookup /\ [][NextLookup]_vars

-----------------------------------------------------------------------------
(* The round-trip scenario: decode(encode(unicode_string, label), label).  *)

InitRoundTrip ==
    /\ unicode_string \in TextInputs
    /\ label \in RoundTripLabels
    /\ errors = NoArg
    /\ pc = "encode"
    /\ encoded = Unused
    /\ chunks = <<>>
    /\ Idle
    /\ label2 = Unused
    /\ looked = Unused

Encode ==
    /\ pc = "encode"
    /\ encoded' = encode(unicode_string, label, errors)
    /\ pc' = "encoded"
    /\ UNCHANGED <<label, chunks, errors, decoded, encoding, buffer_, pulled, gen,
                   output, raised, label2, looked, unicode_string>>

\* decode is applied to what encode returned (when it returned).
DecodeEncoded ==
    /\ pc = "encoded"
    /\ encoded.raised = NoError
    /\ decoded' = decode(encoded.bytes, label, errors)
    /\ pc' = "roundtrip"
    /\ UNCHANGED <<label, chunks, errors, encoding, buffer_, pulled, gen,
                   output, raised, label2, looked, unicode_string, encoded>>

NextRoundTrip == Encode \/ DecodeEncoded

SpecRoundTrip == InitRoundTrip /\ [][NextRoundTrip]_vars

-----------------------------------------------------------------------------
(* Properties of the streaming scenario.                                   *)

\* The whole input, b''.join(chunks).
Joined == Concat(chunks)

\* The first k chunks, joined.
JoinedTo(k) == Concat(SubSeq(chunks, 1, k))

HasUtf16Mark(b) == Len(b) >= 2 /\ <<b[1], b[2]>> \in {<<255, 254>>, <<254, 255>>}
HasUtf8Mark(b) == Len(b) >= 3 /\ <<b[1], b[2], b[3]>> = <<239, 187, 191>>

\* The label is in the table once normalized.
KnownLabel == lookup(label).ok

\* decode has returned or raised.
DecodeDone == pc # "decode"

\* iterdecode has returned its generator.
Handed == pc \in {"returned", "yielded", "stopped"}
             \/ (pc = "raised" /\ raised = "UnicodeDecodeError")

\* C1: decode takes the codec from the leading bytes before the label: UTF-16
\* for FF FE or FE FF, else UTF-8-skip-BOM for EF BB BF, else the codec the
\* label resolves to.
C1_DecodeBomBeforeLabel ==
    (DecodeDone /\ KnownLabel) =>
        decoded.encoding =
            IF HasUtf16Mark(Joined) THEN "utf_16"
            ELSE IF HasUtf8Mark(Joined) THEN "utf_8_sig"
            ELSE lookup(label).name

\* decode was given FE FF ... with the label " ascii" and used UTF-16.
C1_Witness ==
    /\ DecodeDone
    /\ label = U(<<" ","a","s","c","i","i">>)
    /\ Len(Joined) = 3
    /\ SubSeq(Joined, 1, 2) = <<254, 255>>
    /\ decoded.encoding = "utf_16"
    /\ lookup(label).name = "windows-1252"

\* C2: with a label that is not in the table, decode raises the lookup error
\* whatever the bytes are, and iterdecode raises it having pulled no chunk.
C2_UnknownLabelFirst ==
    ~KnownLabel =>
        /\ DecodeDone => (decoded.raised = "LookupError" /\ decoded.encoding = Unused)
        /\ pc \notin {"decode", "iterdecode"} =>
              /\ pc = "raised"
              /\ raised = "LookupError"
              /\ pulled = 0
              /\ buffer_ = <<>>

\* Both calls raised on an unknown label although the input starts with a mark.
C2_Witness ==
    /\ ~KnownLabel
    /\ pc = "raised"
    /\ raised = "LookupError"
    /\ decoded.raised = "LookupError"
    /\ Len(chunks) = 2
    /\ chunks[1] = <<239, 187, 191>>
    /\ pulled = 0

\* C3: however the input is chunked, iterdecode commits to the codec decode
\* selects for the joined input; EF BB followed by another byte is no mark.
C3_ChunkingIndependent ==
    Handed =>
        /\ gen.encoding = decoded.encoding
        /\ encoding = decoded.encoding
        /\ (Len(Joined) >= 3 /\ SubSeq(Joined, 1, 2) = <<239, 187>> /\ Joined[3] # 191)
              => gen.encoding = lookup(label).name

\* The UTF-8 mark came as three one-byte chunks and was detected.
C3_Witness ==
    /\ Handed
    /\ chunks = <<<<239>>, <<187>>, <<191>>>>
    /\ gen.encoding = "utf_8_sig"
    /\ decoded.encoding = "utf_8_sig"

\* C4: what iterdecode hands to codecs.iterdecode is the buffer as one element
\* followed by the chunks not yet pulled, and joins to the joined input.
C4_ChainPreservesBytes ==
    pc = "returned" =>
        /\ gen.pending = <<buffer_>>
        /\ buffer_ = JoinedTo(pulled)
        /\ Concat(gen.pending \o SubSeq(chunks, pulled + 1, Len(chunks))) = Joined

\* Two one-byte chunks were buffered (a UTF-16 mark split over them) and a
\* third chunk is still to be pulled.
C4_Witness ==
    /\ pc = "returned"
    /\ pulled = 2
    /\ Len(chunks) = 3
    /\ Len(chunks[1]) = 1
    /\ Len(chunks[3]) = 1
    /\ Len(buffer_) = 2

\* C6: without an errors argument iterdecode passes 'replace' to the codec
\* engine, as decode does.
C6_IterdecodeDefaultReplace ==
    (pc = "returned" /\ errors = NoArg) =>
        (gen.errors = "replace" /\ gen.errors = decoded.errors)

\* The source ended with fewer than three bytes and no mark.
ShortNoMark == Len(Joined) < 3 /\ ~HasUtf16Mark(Joined)

\* C7: every call of iterdecode ends, with the generator returned or, before
\* any buffering, with the lookup error; when the source ends with fewer than
\* three bytes and no mark, the label's codec is kept, nothing is raised and
\* the short buffer is passed on.
C7_BufferingTerminates ==
    /\ <>(pc = "returned" \/ (raised = "LookupError" /\ pulled = 0))
    /\ []((pc = "returned" /\ ShortNoMark) =>
            /\ raised = NoError
            /\ pulled = Len(chunks)
            /\ gen.encoding = lookup(label).name
            /\ gen.pending = <<Joined>>)

\* EF BB alone, in two chunks around an empty one, was handed on.
C7_Witness ==
    /\ pc = "returned"
    /\ chunks = <<<<239>>, <<>>, <<187>>>>
    /\ gen.encoding = "utf-8"
    /\ gen.pending = <<<<239, 187>>>>

\* The buffering loop stops after the first k chunks.
StopAt(k) ==
    \/ HasUtf16Mark(JoinedTo(k))
    \/ HasUtf8Mark(JoinedTo(k))
    \/ Len(JoinedTo(k)) >= 3

LeastStop ==
    IF \E k \in 1..Len(chunks) : StopAt(k)
    THEN CHOOSE k \in 1..Len(chunks) : StopAt(k) /\ \A j \in 1..(k - 1) : ~StopAt(j)
    ELSE Len(chunks)

\* C10: iterdecode has pulled, when it returns, the least number of chunks
\* after which the buffer starts with a mark or holds three bytes (all of them
\* if there is no such number), and while it loops no such number is reached.
C10_PullsLeastPrefix ==
    /\ pc = "buffering" => \A k \in 1..pulled : ~StopAt(k)
    /\ pc = "returned" => pulled = LeastStop

\* A UTF-16 mark was complete after two one-byte chunks; the third chunk was
\* left to the consumer.
C10_Witness ==
    /\ pc = "returned"
    /\ chunks = <<<<255>>, <<254>>, <<65>>>>
    /\ pulled = 2
    /\ gen.encoding = "utf_16"

\* What a strict decoder of the committed codec makes of the bytes b when more
\* may follow.
StrictRun(b) == IncrementalDecode(NewDecoder(gen.encoding, "strict"), b, FALSE).run

\* The first chunk at which a strict decoder fails, or Len(chunks) + 1 when it
\* fails only at the end of the input.
Offending ==
    IF \E k \in 1..Len(chunks) : StrictRun(JoinedTo(k)).err
    THEN CHOOSE k \in 1..Len(chunks) :
            StrictRun(JoinedTo(k)).err /\ \A j \in 1..(k - 1) : ~StrictRun(JoinedTo(j)).err
    ELSE Len(chunks) + 1

StrictFailure == Handed /\ raised = "UnicodeDecodeError" /\ gen.errors = "strict"

-----------------------------------------------------------------------------
(* Properties of the round-trip scenario.                                  *)

ZWNBSP == <<65279>>

RoundTripDone == pc = "roundtrip"

\* C5 as stated: decode(encode(s, 'utf-8'), 'utf-8') = s for every text that
\* UTF-8 can express, a text that starts with U+FEFF included.
C5_RoundTrip ==
    RoundTripDone => (decoded.raised = NoError /\ decoded.text = unicode_string)

\* C5 amended: decode(encode(s, 'utf-8'), 'utf-8') = s for every text that UTF-8
\* can express and that does not start with U+FEFF; for a text that starts with
\* U+FEFF the result is s without that first character.
C5_RoundTripButLeadingFEFF ==
    RoundTripDone =>
        /\ decoded.raised = NoError
        /\ decoded.text = IF StartsWith(unicode_string, ZWNBSP)
                          THEN Tail(unicode_string)
                          ELSE unicode_string

\* A text of one, two, three and four byte characters came back unchanged; its
\* U+FEFF is not the first character.
C5_Witness ==
    /\ RoundTripDone
    /\ unicode_string = <<233, 65279, 128512>>
    /\ encoded.bytes = <<195, 169, 239, 187, 191, 240, 159, 152, 128>>
    /\ decoded.text = unicode_string

-----------------------------------------------------------------------------
(* Properties of the lookup scenario.                                      *)

IsAsciiWhitespace(c) == c \in {9, 10, 12, 13, 32}

\* The label between its first and last character that is not one of the five
\* ASCII white space characters, with A-Z lowercased.
Normalized(lbl) ==
    LET kept == {i \in 1..Len(lbl) : ~IsAsciiWhitespace(lbl[i])}
        first == CHOOSE i \in kept : \A j \in kept : i <= j
        last == CHOOSE i \in kept : \A j \in kept : j <= i
    IN  IF kept = {} THEN <<>>
        ELSE [i \in 1..(last - first + 1) |->
                LET c == lbl[first + i - 1]
                IN  IF c \in 65..90 THEN c + 32 ELSE c]

\* C8: lookup looks up the normalized label and nothing else: two labels with
\* the same normalized form both resolve to the same name or both fail, and
\* white space inside, non-ASCII white space and non-ASCII letters stay.
C8_LookupByNormalizedLabel ==
    pc = "looked" =>
        /\ looked[1].key = Normalized(label)
        /\ looked[2].key = Normalized(label2)
        /\ Normalized(label) = Normalized(label2) =>
              (looked[1].ok = looked[2].ok /\ looked[1].name = looked[2].name)

\* "\tUTF8 " and "utf8" resolved to the same name.
C8_Witness ==
    /\ pc = "looked"
    /\ label = <<9>> \o U(<<"U","T","F","8"," ">>)
    /\ label2 = U(<<"u","t","f","8">>)
    /\ looked[1].ok
    /\ looked[1].name = "utf-8"
    /\ looked[2].name = "utf-8"

=============================================================================
